---------------------------- MODULE Spec2Model ----------------------------
(***************************************************************************)
(* fragility.py: the interaction graph of a chess position, its fragility  *)
(* score (betweenness centrality summed over the attacked nodes), the      *)
(* [%eval ...] annotation extractor, the per-ply game walker and the       *)
(* reporter loop with its running evaluation total.                        *)
(*                                                                         *)
(* Squares are 0..63 (a1 = 0, h1 = 7, a8 = 56, h8 = 63) as in python-chess.*)
(* chess.WHITE is TRUE and chess.BLACK is FALSE.  Positions carry no       *)
(* castling rights (FEN castling field "-"), so castling never arises.     *)
(***************************************************************************)
EXTENDS Integers, Sequences, FiniteSets, TLC

(***************************************************************************)
(* Bounds of the model.                                                    *)
(***************************************************************************)
\* pieces placed on the board analysed by the graph builder
MaxPieces == 3
\* main-line moves of the replayed game
MaxMoves == 2
\* tokens of a comment text handed to extract_eval
MaxLen == 4

(***************************************************************************)
(* The python-chess position: pieces, side to move, en-passant square.     *)
(***************************************************************************)
WHITE == TRUE
BLACK == FALSE
SQUARES == 0 .. 63
None == [piece_type |-> "none", color |-> TRUE]
PieceTypes == {"P", "N", "B", "R", "Q", "K"}
Piece(t, c) == [piece_type |-> t, color |-> c]
NoSquare == 0 - 1

File(sq) == sq % 8
Rank(sq) == sq \div 8
Square(f, r) == r * 8 + f
OnBoard(f, r) == f >= 0 /\ f <= 7 /\ r >= 0 /\ r <= 7

EmptyPieces == [sq \in SQUARES |-> None]
Occupied(pieces) == {sq \in SQUARES : pieces[sq] # None}

KnightDeltas ==
    {<<1, 2>>, <<2, 1>>, <<2, 0 - 1>>, <<1, 0 - 2>>,
     <<0 - 1, 0 - 2>>, <<0 - 2, 0 - 1>>, <<0 - 2, 1>>, <<0 - 1, 2>>}
KingDeltas ==
    {<<1, 0>>, <<1, 1>>, <<0, 1>>, <<0 - 1, 1>>,
     <<0 - 1, 0>>, <<0 - 1, 0 - 1>>, <<0, 0 - 1>>, <<1, 0 - 1>>}
RookDirs == {<<1, 0>>, <<0, 1>>, <<0 - 1, 0>>, <<0, 0 - 1>>}
BishopDirs == {<<1, 1>>, <<0 - 1, 1>>, <<0 - 1, 0 - 1>>, <<1, 0 - 1>>}

Leaps(sq, deltas) ==
    {Square(File(sq) + d[1], Rank(sq) + d[2]) :
        d \in {e \in deltas : OnBoard(File(sq) + e[1], Rank(sq) + e[2])}}

\* the squares of a ray from (f, r), up to and including the first occupied one
RECURSIVE RayFrom(_, _, _, _, _)
RayFrom(pieces, f, r, df, dr) ==
    LET nf == f + df
        nr == r + dr
    IN  IF ~OnBoard(nf, nr) THEN {}
        ELSE IF pieces[Square(nf, nr)] # None THEN {Square(nf, nr)}
        ELSE {Square(nf, nr)} \cup RayFrom(pieces, nf, nr, df, dr)

Slides(pieces, sq, dirs) ==
    UNION {RayFrom(pieces, File(sq), Rank(sq), d[1], d[2]) : d \in dirs}

PawnDir(color) == IF color = WHITE THEN 1 ELSE 0 - 1

\* chess.Board.attacks_mask: the squares the piece on sq attacks
attacks_mask(pieces, sq) ==
    LET pc == pieces[sq]
    IN  CASE pc.piece_type = "P" ->
                Leaps(sq, {<<1, PawnDir(pc.color)>>, <<0 - 1, PawnDir(pc.color)>>})
          [] pc.piece_type = "N" -> Leaps(sq, KnightDeltas)
          [] pc.piece_type = "K" -> Leaps(sq, KingDeltas)
          [] pc.piece_type = "B" -> Slides(pieces, sq, BishopDirs)
          [] pc.piece_type = "R" -> Slides(pieces, sq, RookDirs)
          [] pc.piece_type = "Q" -> Slides(pieces, sq, RookDirs \cup BishopDirs)
          [] OTHER -> {}

\* chess.Board.is_attacked_by
is_attacked_by(pieces, color, sq) ==
    \E s \in Occupied(pieces) :
        pieces[s].color = color /\ sq \in attacks_mask(pieces, s)

\* chess.Board.king: the square of the king of a colour, NoSquare when absent
king(pieces, color) ==
    LET ks == {s \in SQUARES : pieces[s] = Piece("K", color)}
    IN  IF ks = {} THEN NoSquare ELSE CHOOSE s \in ks : \A t \in ks : t <= s

Move(from, to) == [from_square |-> from, to_square |-> to, promotion |-> "none"]
PromotionMove(from, to, p) == [from_square |-> from, to_square |-> to, promotion |-> p]
PromotionTypes == {"Q", "R", "B", "N"}

BackRank(sq) == Rank(sq) = 0 \/ Rank(sq) = 7

\* a pawn move onto the back rank is generated once per promotion piece,
\* every other pawn move once, without promotion
PawnMovesTo(from, to) ==
    IF BackRank(to) THEN {PromotionMove(from, to, p) : p \in PromotionTypes}
    ELSE {Move(from, to)}

\* chess.Board.generate_pseudo_legal_moves restricted to the pawn on `from`
PawnPseudoLegalMoves(b, from) ==
    LET pieces == b.pieces
        color == pieces[from].color
        dir == PawnDir(color)
        one == from + 8 * dir
        two == from + 16 * dir
        captures ==
            {to \in attacks_mask(pieces, from) :
                pieces[to] # None /\ pieces[to].color # color}
        single ==
            IF one \in SQUARES /\ pieces[one] = None THEN {one} ELSE {}
        double ==
            IF /\ single # {}
               /\ Rank(from) = (IF color = WHITE THEN 1 ELSE 6)
               /\ pieces[two] = None
            THEN {two} ELSE {}
        ep ==
            IF /\ b.ep_square # NoSquare
               /\ pieces[b.ep_square] = None
               /\ b.ep_square \in attacks_mask(pieces, from)
               /\ Rank(from) = (IF color = WHITE THEN 4 ELSE 3)
            THEN {b.ep_square} ELSE {}
    IN  UNION {PawnMovesTo(from, to) : to \in captures \cup single}
            \cup {Move(from, to) : to \in double \cup ep}

\* chess.Board.is_pseudo_legal
is_pseudo_legal(b, m) ==
    LET pieces == b.pieces
        pc == pieces[m.from_square]
    IN  /\ pc # None
        /\ pc.color = b.turn
        /\ m.promotion # "none" =>
              /\ pc.piece_type = "P"
              /\ Rank(m.to_square) = (IF b.turn = WHITE THEN 7 ELSE 0)
        /\ ~(pieces[m.to_square] # None /\ pieces[m.to_square].color = b.turn)
        /\ IF pc.piece_type = "P"
           THEN m \in PawnPseudoLegalMoves(b, m.from_square)
           ELSE m.to_square \in attacks_mask(pieces, m.from_square)

IsEnPassant(b, m) ==
    /\ b.pieces[m.from_square].piece_type = "P"
    /\ m.to_square = b.ep_square
    /\ File(m.from_square) # File(m.to_square)
    /\ b.pieces[m.to_square] = None

\* the piece placement after a move: capture, promotion, en-passant capture
PiecesAfter(b, m) ==
    LET pc == b.pieces[m.from_square]
        placed == IF m.promotion = "none" THEN pc ELSE Piece(m.promotion, pc.color)
        capsq == IF IsEnPassant(b, m)
                 THEN m.to_square - 8 * PawnDir(pc.color)
                 ELSE m.to_square
    IN  [sq \in SQUARES |->
            IF sq = m.to_square THEN placed
            ELSE IF sq = m.from_square \/ sq = capsq THEN None
            ELSE b.pieces[sq]]

\* chess.Board.is_into_check: never when the mover has no king
is_into_check(b, m) ==
    LET after == PiecesAfter(b, m)
        k == king(after, b.turn)
    IN  /\ king(b.pieces, b.turn) # NoSquare
        /\ is_attacked_by(after, ~b.turn, k)

\* `move in board.legal_moves`, that is chess.Board.is_legal
is_legal(b, m) == is_pseudo_legal(b, m) /\ ~is_into_check(b, m)

\* board.legal_moves
legal_moves(b) ==
    {m \in UNION {{Move(f, t)} \cup {PromotionMove(f, t, p) : p \in PromotionTypes} :
                    f \in {s \in Occupied(b.pieces) : b.pieces[s].color = b.turn},
                    t \in SQUARES} :
        is_legal(b, m)}

\* board.push: the successor position
push(b, m) ==
    LET pc == b.pieces[m.from_square]
    IN  [pieces |-> PiecesAfter(b, m),
         turn |-> ~b.turn,
         ep_square |->
            IF pc.piece_type = "P" /\ m.to_square - m.from_square = 16
                 /\ Rank(m.from_square) = 1
            THEN m.from_square + 8
            ELSE IF pc.piece_type = "P" /\ m.from_square - m.to_square = 16
                 /\ Rank(m.from_square) = 6
            THEN m.from_square - 8
            ELSE NoSquare]

(***************************************************************************)
(* Exact rationals stand for the floats of the centrality computation.     *)
(***************************************************************************)
RECURSIVE Gcd(_, _)
Gcd(a, b) == IF b = 0 THEN a ELSE Gcd(b, a % b)
Abs(x) == IF x < 0 THEN 0 - x ELSE x
Rat(n, d) ==
    LET s == IF d < 0 THEN 0 - 1 ELSE 1
        g == Gcd(Abs(n), Abs(d))
    IN  [num |-> (s * n) \div g, den |-> (s * d) \div g]
Zero == [num |-> 0, den |-> 1]
RatAdd(x, y) == Rat(x.num * y.den + y.num * x.den, x.den * y.den)
RatLess(x, y) == x.num * y.den < y.num * x.den

RECURSIVE RatSum(_, _)
RatSum(f, S) ==
    IF S = {} THEN Zero
    ELSE LET x == CHOOSE y \in S : TRUE
         IN  RatAdd(f[x], RatSum(f, S \ {x}))

RECURSIVE NatSum(_, _)
NatSum(f, S) ==
    IF S = {} THEN 0
    ELSE LET x == CHOOSE y \in S : TRUE
         IN  f[x] + NatSum(f, S \ {x})

(***************************************************************************)
(* The networkx DiGraph: nodes (square, piece) and at most one edge per    *)
(* ordered node pair, carrying its colour and interaction.                 *)
(***************************************************************************)
Node(pieces, sq) == [square |-> sq, piece |-> pieces[sq]]
NoNode == [square |-> NoSquare, piece |-> None]
EmptyGraph == [nodes |-> {}, edges |-> {}]

\* G.add_edge(u, v, color=..., interaction=...): both ends become nodes and
\* an existing u->v edge is replaced
add_edge(G, u, v, color, interaction) ==
    [nodes |-> G.nodes \cup {u, v},
     edges |-> {e \in G.edges : ~(e.u = u /\ e.v = v)}
                 \cup {[u |-> u, v |-> v, color |-> color, interaction |-> interaction]}]

\* nx.compose(G, H): the union, H's attributes taking precedence
compose(G, H) ==
    [nodes |-> G.nodes \cup H.nodes,
     edges |-> {e \in G.edges : ~\E h \in H.edges : h.u = e.u /\ h.v = e.v}
                 \cup H.edges]

\* board.copy(), board_copy.turn = color_turn
board_copy_for(b, color_turn) == [b EXCEPT !.turn = color_turn]

\* chess.Board.remove_piece_at and set_piece_at touch the placement only
remove_piece_at(b, sq) == [b EXCEPT !.pieces[sq] = None]
set_piece_at(b, sq, pc) == [b EXCEPT !.pieces[sq] = pc]

\* piece_positions: the occupied squares, in chess.SQUARES order
RECURSIVE SortedSeq(_)
SortedSeq(S) ==
    IF S = {} THEN <<>>
    ELSE LET m == CHOOSE x \in S : \A y \in S : x <= y
         IN  <<m>> \o SortedSeq(S \ {m})

piece_positions(b) == SortedSeq(Occupied(b.pieces))

\* the (square_a, square_b) pairs the nested loops examine, in order
RECURSIVE PairsOf(_, _, _, _, _)
PairsOf(b, color_turn, pp, i, j) ==
    IF i > Len(pp) THEN <<>>
    ELSE IF j > Len(pp) THEN PairsOf(b, color_turn, pp, i + 1, 1)
    ELSE IF b.pieces[pp[i]].color # color_turn
         THEN PairsOf(b, color_turn, pp, i + 1, 1)
    ELSE IF pp[j] = pp[i] THEN PairsOf(b, color_turn, pp, i, j + 1)
    ELSE <<[a |-> pp[i], b |-> pp[j]]>> \o PairsOf(b, color_turn, pp, i, j + 1)

Pairs(b, color_turn) == PairsOf(b, color_turn, piece_positions(b), 1, 1)

\* lines 20-31: the graph holding every piece as a node, no edge yet
InitialGraph(b) ==
    [nodes |-> {Node(b.pieces, sq) : sq \in Occupied(b.pieces)}, edges |-> {}]

IsDefensePair(b, pair) == b.pieces[pair.b].color = b.pieces[pair.a].color

\* the restoration nested under the legality test of line 51
RestoreNeeded_OnlyWhenLegal(backup_piece, legal) == backup_piece # None /\ legal

\* whether the piece lifted off square_b is put back (line 58)
RestoreNeeded(backup_piece, legal) == backup_piece # None

\* lines 46-59: the defense probe of one pair, on the working copy
DefenseProbe(st, b, color_turn, pair) ==
    LET node_a == Node(b.pieces, pair.a)
        node_b == Node(b.pieces, pair.b)
        backup_piece == st.board_copy.pieces[pair.b]
        removed == remove_piece_at(st.board_copy, pair.b)
        legal == is_legal(removed, Move(pair.a, pair.b))
        edge_color == IF color_turn = WHITE THEN "blue" ELSE "green"
    IN  [G |-> IF legal
               THEN add_edge(st.G, node_a, node_b, edge_color, "defense")
               ELSE st.G,
         board_copy |-> IF RestoreNeeded(backup_piece, legal)
                        THEN set_piece_at(removed, pair.b, backup_piece)
                        ELSE removed,
         legal |-> legal]

\* the move whose legality decides an attack edge (lines 66 and 71)
AttackMove(a, b) == Move(a, b)

\* lines 62-73: the attack probe of one pair; pawns and other pieces run the
\* same legality test
AttackProbe(st, b, color_turn, pair) ==
    LET node_a == Node(b.pieces, pair.a)
        node_b == Node(b.pieces, pair.b)
        legal == is_legal(st.board_copy, AttackMove(pair.a, pair.b))
    IN  [G |-> IF legal
               THEN add_edge(st.G, node_a, node_b, "red", "attack")
               ELSE st.G,
         board_copy |-> st.board_copy,
         legal |-> legal]

ProbePair(st, b, color_turn, pair) ==
    IF IsDefensePair(b, pair)
    THEN DefenseProbe(st, b, color_turn, pair)
    ELSE AttackProbe(st, b, color_turn, pair)

RECURSIVE ProbeFrom(_, _, _, _, _)
ProbeFrom(st, b, color_turn, pairs, k) ==
    IF k > Len(pairs) THEN st
    ELSE ProbeFrom(ProbePair(st, b, color_turn, pairs[k]), b, color_turn, pairs, k + 1)

compute_interactions_for_color(b, color_turn) ==
    ProbeFrom([G |-> InitialGraph(b),
               board_copy |-> board_copy_for(b, color_turn),
               legal |-> FALSE],
              b, color_turn, Pairs(b, color_turn), 1).G

build_interaction_graph(b) ==
    compose(compute_interactions_for_color(b, WHITE),
            compute_interactions_for_color(b, BLACK))

(***************************************************************************)
(* nx.betweenness_centrality(G, normalized=True): for every node v the sum *)
(* over the ordered pairs (s, t) of other nodes of the fraction of the     *)
(* shortest s-t paths that pass through v, rescaled by 1/((n-1)(n-2)).     *)
(***************************************************************************)
Successors(G, u) == {e.v : e \in {x \in G.edges : x.u = u}}

\* breadth-first search from a source: sp.dist and sp.sigma (the number of
\* shortest paths) of every node reached so far; `level` is the frontier
RECURSIVE BreadthFirst(_, _, _)
BreadthFirst(G, level, sp) ==
    LET found == DOMAIN sp.dist
        next == UNION {Successors(G, u) : u \in level} \ found
        d == sp.dist[CHOOSE u \in level : TRUE] + 1
        preds(t) == {u \in level : t \in Successors(G, u)}
    IN  IF next = {} THEN sp
        ELSE BreadthFirst(G, next,
                [dist |-> [t \in found \cup next |->
                              IF t \in found THEN sp.dist[t] ELSE d],
                 sigma |-> [t \in found \cup next |->
                              IF t \in found THEN sp.sigma[t]
                              ELSE NatSum(sp.sigma, preds(t))]])

ShortestPaths(G, s) ==
    BreadthFirst(G, {s}, [dist |-> [t \in {s} |-> 0], sigma |-> [t \in {s} |-> 1]])

\* the pair dependency of (s, t) on v: sigma_st(v) / sigma_st
PairDependency(sp, v, s, t) ==
    IF /\ v \in DOMAIN sp[s].dist
       /\ t \in DOMAIN sp[s].dist
       /\ t \in DOMAIN sp[v].dist
       /\ sp[s].dist[v] + sp[v].dist[t] = sp[s].dist[t]
    THEN Rat(sp[s].sigma[v] * sp[v].sigma[t], sp[s].sigma[t])
    ELSE Zero

\* the scale with (2 - n) written for (n - 2)
Rescale_SignSlip(x, n) ==
    IF n <= 2 THEN x ELSE Rat(x.num, x.den * (n - 1) * (2 - n))

\* networkx _rescale: no scaling for n <= 2, else 1 / ((n - 1)(n - 2))
Rescale(x, n) ==
    IF n <= 2 THEN x ELSE Rat(x.num, x.den * (n - 1) * (n - 2))

\* the pairs of betweenness with endpoints=True: v counts as source and target
PathEndpoints_Included(nodes, v) ==
    {st \in nodes \X nodes : st[1] # st[2]}

\* the (source, target) pairs that count towards v: endpoints are excluded
PathEndpoints(nodes, v) ==
    {st \in (nodes \ {v}) \X (nodes \ {v}) : st[1] # st[2]}

betweenness_centrality(G) ==
    LET sp == [s \in G.nodes |-> ShortestPaths(G, s)]
        n == Cardinality(G.nodes)
        raw(v) == RatSum([st \in PathEndpoints(G.nodes, v) |->
                             PairDependency(sp, v, st[1], st[2])],
                         PathEndpoints(G.nodes, v))
    IN  [v \in G.nodes |-> Rescale(raw(v), n)]

\* the targets of every edge, the colour test of line 110 left out
attacked_nodes_AnyEdge(G) == {e.v : e \in G.edges}

\* lines 108-111: the nodes that receive a red edge
attacked_nodes(G) == {e.v : e \in {x \in G.edges : x.color = "red"}}

\* the node a first-maximum scan over `order` (a sequence of nodes) returns
RECURSIVE FirstMax(_, _, _, _)
FirstMax(bc, order, k, best) ==
    IF k > Len(order) THEN best
    ELSE FirstMax(bc, order, k + 1,
                  IF RatLess(bc[best], bc[order[k]]) THEN order[k] ELSE best)

\* the orders in which a Python set of nodes may be iterated: the hash-table
\* order of the (square, piece) tuples, which the program does not choose
RECURSIVE Orderings(_)
Orderings(S) ==
    IF S = {} THEN {<<>>}
    ELSE UNION {{<<x>> \o o : o \in Orderings(S \ {x})} : x \in S}

\* line 120: max(attacked_nodes, key=bc) returns the first maximal node of
\* the set's iteration order
TopNodes(bc, attacked) ==
    {FirstMax(bc, o, 2, o[1]) : o \in Orderings(attacked)}

\* lines 98-122 on a built graph: the (fragility, top_node) results the
\* scorer can return
ScoreGraph(G) ==
    IF Cardinality(G.nodes) = 0
    THEN {[fragility |-> Zero, top_node |-> NoNode]}
    ELSE LET bc == betweenness_centrality(G)
             attacked == attacked_nodes(G)
         IN  IF attacked = {}
             THEN {[fragility |-> Zero, top_node |-> NoNode]}
             ELSE {[fragility |-> RatSum(bc, attacked), top_node |-> t] :
                      t \in TopNodes(bc, attacked)}

compute_fragility_score(b) == ScoreGraph(build_interaction_graph(b))

(***************************************************************************)
(* extract_eval.  A comment text is a sequence of tokens: the literal      *)
(* "[%eval " that opens a tag is one token, every other token is one       *)
(* character.  A float is the exact decimal value it is parsed from.       *)
(***************************************************************************)
OPEN == "[%eval "
Digits == {"0", "1", "2", "3", "4", "5", "6", "7", "8", "9"}
DigitValue(c) ==
    CASE c = "0" -> 0 [] c = "1" -> 1 [] c = "2" -> 2 [] c = "3" -> 3
      [] c = "4" -> 4 [] c = "5" -> 5 [] c = "6" -> 6 [] c = "7" -> 7
      [] c = "8" -> 8 [] c = "9" -> 9

\* the first index >= i of text whose token is outside class (Len + 1 if none)
RECURSIVE RunEnd(_, _, _)
RunEnd(text, i, class) ==
    IF i > Len(text) \/ text[i] \notin class THEN i
    ELSE RunEnd(text, i + 1, class)

\* line 132: group 1 of the pattern matched with its "[%eval " at index i,
\* <<>> when the pattern does not match there
MatchGroupAt(text, i) ==
    LET n == Len(text)
        s1 == IF i + 1 <= n /\ text[i + 1] \in {"+", "-"} THEN i + 2 ELSE i + 1
        e1 == RunEnd(text, s1, Digits \cup {"."})
        s2 == IF i + 2 <= n /\ text[i + 2] = "-" THEN i + 3 ELSE i + 2
        e2 == RunEnd(text, s2, Digits)
    IN  IF text[i] # OPEN THEN <<>>
        ELSE IF e1 > s1 /\ e1 <= n /\ text[e1] = "]" THEN SubSeq(text, i + 1, e1 - 1)
        ELSE IF /\ i + 1 <= n /\ text[i + 1] = "#"
                /\ e2 > s2 /\ e2 <= n /\ text[e2] = "]"
             THEN SubSeq(text, i + 1, e2 - 1)
        ELSE <<>>

\* re.search: the match at the leftmost index that has one
RECURSIVE SearchFrom(_, _)
SearchFrom(text, i) ==
    IF i > Len(text) THEN <<>>
    ELSE IF MatchGroupAt(text, i) # <<>> THEN MatchGroupAt(text, i)
    ELSE SearchFrom(text, i + 1)

Count(str, c) == Cardinality({i \in 1 .. Len(str) : str[i] = c})

RECURSIVE DigitsValue(_)
DigitsValue(str) ==
    IF str = <<>> THEN 0
    ELSE 10 * DigitsValue(SubSeq(str, 1, Len(str) - 1)) + DigitValue(str[Len(str)])

RECURSIVE Pow10(_)
Pow10(n) == IF n = 0 THEN 1 ELSE 10 * Pow10(n - 1)

Unsigned(str) ==
    IF str # <<>> /\ str[1] \in {"+", "-"} THEN SubSeq(str, 2, Len(str)) ELSE str

\* whether Python's float() accepts a string of sign, digit and "." characters
FloatAccepts(str) ==
    /\ Count(Unsigned(str), ".") <= 1
    /\ \E i \in 1 .. Len(Unsigned(str)) : Unsigned(str)[i] \in Digits
    /\ \A i \in 1 .. Len(Unsigned(str)) : Unsigned(str)[i] \in Digits \cup {"."}

\* the value of float(str) for an accepted string
FloatValue(str) ==
    LET body == Unsigned(str)
        dot == RunEnd(body, 1, Digits)
        digits == SelectSeq(body, LAMBDA c : c # ".")
        places == IF dot > Len(body) THEN 0 ELSE Len(body) - dot
        sign == IF str[1] = "-" THEN 0 - 1 ELSE 1
    IN  Rat(sign * DigitsValue(digits), Pow10(places))

EvalNone == [kind |-> "None", value |-> Zero, text |-> <<>>]
EvalFloat(v) == [kind |-> "float", value |-> v, text |-> <<>>]
EvalMate(t) == [kind |-> "mate", value |-> Zero, text |-> t]
ValueError == [kind |-> "ValueError", value |-> Zero, text |-> <<>>]

\* lines 132-138; ValueError is float() raising on the matched text
extract_eval(comment) ==
    LET eval_str == SearchFrom(comment, 1)
    IN  IF eval_str = <<>> THEN EvalNone
        ELSE IF Count(eval_str, "#") > 0 THEN EvalMate(eval_str)
        ELSE IF FloatAccepts(eval_str) THEN EvalFloat(FloatValue(eval_str))
        ELSE ValueError

(***************************************************************************)
(* The positions handed to the graph builder: up to MaxPieces pieces of    *)
(* PiecePalette on PlacementSquares (f6, f7, g7, h8), at most one king a   *)
(* side and no pawn on a back rank.                                        *)
(***************************************************************************)
PlacementSquares == {45, 53, 54, 63}
PiecePalette ==
    {Piece("P", WHITE), Piece("R", WHITE), Piece("K", WHITE),
     Piece("N", BLACK), Piece("B", BLACK), Piece("K", BLACK)}

CanPlace(pieces, sq, pc) ==
    /\ pieces[sq] = None
    /\ pc.piece_type = "P" => ~BackRank(sq)
    /\ pc.piece_type = "K" => king(pieces, pc.color) = NoSquare

RECURSIVE Placements(_)
Placements(n) ==
    IF n = 0 THEN {EmptyPieces}
    ELSE LET smaller == Placements(n - 1)
         IN  smaller \cup
             UNION {{[p EXCEPT ![x[1]] = x[2]] :
                        x \in {y \in PlacementSquares \X PiecePalette :
                                  CanPlace(p, y[1], y[2])}} :
                    p \in smaller}

Position(pieces, turn) == [pieces |-> pieces, turn |-> turn, ep_square |-> NoSquare]

(***************************************************************************)
(* The game records read by the walker: no game at all, or a game whose    *)
(* FEN header gives one of StartPositions; its main line has at most       *)
(* MaxMoves moves, each a legal move carrying one of GameComments.         *)
(***************************************************************************)
PositionOf(ps, turn) ==
    [pieces |-> [sq \in SQUARES |-> IF sq \in DOMAIN ps THEN ps[sq] ELSE None],
     turn |-> turn, ep_square |-> NoSquare]

\* 8/8/8/3p4/8/4P3/4P3/8: white pawns e2 and e3, a black pawn d5
DoubledPawns == (12 :> Piece("P", WHITE)) @@ (20 :> Piece("P", WHITE))
                    @@ (35 :> Piece("P", BLACK))
\* k7/8/8/8/3p4/8/4P3/K7: kings a1 and a8, a white pawn e2, a black pawn d4
EnPassantPawns == (0 :> Piece("K", WHITE)) @@ (56 :> Piece("K", BLACK))
                    @@ (12 :> Piece("P", WHITE)) @@ (27 :> Piece("P", BLACK))

StartPositions ==
    {PositionOf(DoubledPawns, WHITE), PositionOf(DoubledPawns, BLACK),
     PositionOf(EnPassantPawns, WHITE)}

NoGame == [present |-> FALSE, board |-> PositionOf(<<>>, WHITE)]
GameOf(b) == [present |-> TRUE, board |-> b]

GameComments ==
    {<<>>,
     <<OPEN, "-", "1", ".", "5", "]">>,
     <<"x", OPEN, "#", "3", "]">>,
     <<OPEN, "1", ".", "2", ".", "3", "]">>}

\* the walker without its check for a missing game
GameMissing_Never(g) == FALSE

\* line 153: chess.pgn.read_game returned None
GameMissing(g) == ~g.present

FileNames == <<"a", "b", "c", "d", "e", "f", "g", "h">>
RankNames == <<"1", "2", "3", "4", "5", "6", "7", "8">>
\* chess.square_name
square_name(sq) == <<FileNames[File(sq) + 1], RankNames[Rank(sq) + 1]>>

PromotionLetter(p) ==
    CASE p = "Q" -> <<"q">> [] p = "R" -> <<"r">> [] p = "B" -> <<"b">>
      [] p = "N" -> <<"n">> [] OTHER -> <<>>
\* chess.Move.uci
uci(m) ==
    square_name(m.from_square) \o square_name(m.to_square)
        \o PromotionLetter(m.promotion)

\* chess.Piece.symbol
symbol(piece) ==
    IF piece.color = WHITE THEN piece.piece_type
    ELSE CASE piece.piece_type = "P" -> "p" [] piece.piece_type = "N" -> "n"
           [] piece.piece_type = "B" -> "b" [] piece.piece_type = "R" -> "r"
           [] piece.piece_type = "Q" -> "q" [] piece.piece_type = "K" -> "k"

StartPos == <<"start-pos">>

\* lines 164 and 181: one tuple of the result list
Record(ply, move_uci, frag, eval, top) ==
    [ply |-> ply, move_uci |-> move_uci, fragility |-> frag,
     eval_score |-> eval, top_node |-> top]

\* the ply number the loop body gives the next record (line 172)
NextPly(ply_count) == ply_count + 1

\* the records the walker holds after a move that extract_eval accepted
WithRecord(results, ply, m, sc, eval) ==
    Append(results, Record(ply, uci(m), sc.fragility, eval, sc.top_node))

(***************************************************************************)
(* The reporter: fixed-point formatting and the running total.             *)
(***************************************************************************)
\* a float formatted with a fixed number of decimals, as the integer count
\* of units of 1/scale, rounding to nearest with ties to even
Fixed(x, scale) ==
    LET n == x.num * scale
        q == n \div x.den
        r == n - q * x.den
    IN  IF 2 * r < x.den THEN q
        ELSE IF 2 * r > x.den THEN q + 1
        ELSE IF q % 2 = 0 THEN q ELSE q + 1

\* a total that coerces a mate marker "#3" to the number 3
Accumulate_MateAsNumber(cumulative, eval) ==
    IF eval.kind = "float" THEN RatAdd(cumulative, eval.value)
    ELSE IF eval.kind = "mate"
    THEN RatAdd(cumulative,
                Rat(DigitsValue(SelectSeq(eval.text, LAMBDA c : c \in Digits)), 1))
    ELSE cumulative

\* lines 205-206: cumulative_eval += eval_score, for a float only
Accumulate(cumulative, eval) ==
    IF eval.kind = "float" THEN RatAdd(cumulative, eval.value) ELSE cumulative

\* line 202
EvalDisplay(eval) ==
    IF eval.kind = "float"
    THEN [kind |-> "fixed", units |-> Fixed(eval.value, 100), text |-> <<>>]
    ELSE IF eval.kind = "mate"
    THEN [kind |-> "str", units |-> 0, text |-> eval.text]
    ELSE [kind |-> "str", units |-> 0, text |-> <<"None">>]

\* lines 209-213
TopNodeStr(top) ==
    IF top # NoNode
    THEN <<symbol(top.piece), "@">> \o square_name(top.square)
    ELSE <<"-">>

\* line 217: the printed row
Row(rec, cumulative) ==
    [kind |-> "row", ply |-> rec.ply, move |-> rec.move_uci,
     fragility |-> Fixed(rec.fragility, 1000),
     eval |-> EvalDisplay(rec.eval_score),
     top |-> TopNodeStr(rec.top_node),
     cumulative |-> Fixed(cumulative, 100)]

HeaderLine == [kind |-> "header"]
RuleLine == [kind |-> "rule"]

(***************************************************************************)
(* The comment texts handed to extract_eval on its own.                    *)
(***************************************************************************)
Alphabet == {OPEN, "]", "+", "-", "#", ".", "1", "x"}
Texts == UNION {[1 .. n -> Alphabet] : n \in 0 .. MaxLen}

VARIABLES
    board,          \* the position being analysed (the walker's board)
    pc,             \* the program's position
    color_turn,     \* compute_interactions_for_color: its colour argument
    board_copy,     \* compute_interactions_for_color: the working copy
    G,              \* the graph under construction, then the composed graph
    G_white,        \* build_interaction_graph: the finished white subgraph
    k,              \* index of the next (square_a, square_b) pair
    last_probe,     \* the pair probed by the last loop iteration
    score,          \* compute_fragility_score: (fragility, top_node)
    game,           \* what chess.pgn.read_game returns
    mainline,       \* the (move, comment) pairs of the main line read so far
    results,        \* fragility_and_eval_by_ply: its result list
    ply_count,      \* fragility_and_eval_by_ply: its ply counter
    error,          \* the exception that ended the program, if any
    scores,         \* __main__: the list the walker returned
    row,            \* __main__: index of the next record to print
    cumulative_eval,\* __main__: the running total
    output,         \* the lines printed so far
    comment,        \* extract_eval: its argument
    eval_score      \* extract_eval: its result

graphVars == <<color_turn, board_copy, G, G_white, k, last_probe, score>>
mainVars == <<game, mainline, results, ply_count, error, scores, row,
              cumulative_eval, output>>
evalVars == <<comment, eval_score>>
vars == <<board, pc, graphVars, mainVars, evalVars>>

NoProbe == [kind |-> "none", a |-> NoSquare, b |-> NoSquare, legal |-> FALSE]
NoScore == [fragility |-> Zero, top_node |-> NoNode]

GraphIdle ==
    /\ color_turn = WHITE
    /\ board_copy = board
    /\ G = EmptyGraph
    /\ G_white = EmptyGraph
    /\ k = 1
    /\ last_probe = NoProbe
    /\ score = NoScore

MainIdle ==
    /\ mainline = <<>>
    /\ results = <<>>
    /\ ply_count = 0
    /\ error = "none"
    /\ scores = <<>>
    /\ row = 1
    /\ cumulative_eval = Zero
    /\ output = <<>>

EvalIdle ==
    /\ comment = <<>>
    /\ eval_score = EvalNone

(***************************************************************************)
(* compute_fragility_score(board), one step per loop iteration.            *)
(***************************************************************************)
InitGraph ==
    /\ board \in {Position(p, WHITE) : p \in Placements(MaxPieces)}
    /\ pc = "call_white"
    /\ GraphIdle
    /\ game = NoGame
    /\ MainIdle
    /\ EvalIdle

\* lines 20-31: a call of compute_interactions_for_color up to its loops
CallInteractions ==
    /\ pc \in {"call_white", "call_black"}
    /\ color_turn' = (pc = "call_white")
    /\ board_copy' = board_copy_for(board, color_turn')
    /\ G' = InitialGraph(board)
    /\ k' = 1
    /\ pc' = "loop"
    /\ UNCHANGED <<board, G_white, last_probe, score, mainVars, evalVars>>

CurrentPairs == Pairs(board, color_turn)
ProbeState == [G |-> G, board_copy |-> board_copy, legal |-> FALSE]

\* lines 46-59: one loop iteration on a pair of the same colour
DefenseStep ==
    /\ pc = "loop"
    /\ k <= Len(CurrentPairs)
    /\ IsDefensePair(board, CurrentPairs[k])
    /\ LET st == DefenseProbe(ProbeState, board, color_turn, CurrentPairs[k])
       IN  /\ G' = st.G
           /\ board_copy' = st.board_copy
           /\ last_probe' = [kind |-> "defense", a |-> CurrentPairs[k].a,
                             b |-> CurrentPairs[k].b, legal |-> st.legal]
    /\ k' = k + 1
    /\ UNCHANGED <<board, pc, color_turn, G_white, score, mainVars, evalVars>>

\* lines 62-73: one loop iteration on a pair of opposite colours
AttackStep ==
    /\ pc = "loop"
    /\ k <= Len(CurrentPairs)
    /\ ~IsDefensePair(board, CurrentPairs[k])
    /\ LET st == AttackProbe(ProbeState, board, color_turn, CurrentPairs[k])
       IN  /\ G' = st.G
           /\ board_copy' = st.board_copy
           /\ last_probe' = [kind |-> "attack", a |-> CurrentPairs[k].a,
                             b |-> CurrentPairs[k].b, legal |-> st.legal]
    /\ k' = k + 1
    /\ UNCHANGED <<board, pc, color_turn, G_white, score, mainVars, evalVars>>

\* line 75, then lines 83-84: the subgraph of one colour is returned
ReturnInteractions ==
    /\ pc = "loop"
    /\ k > Len(CurrentPairs)
    /\ IF color_turn = WHITE
       THEN G_white' = G /\ pc' = "call_black"
       ELSE G_white' = G_white /\ pc' = "score"
    /\ UNCHANGED <<board, color_turn, board_copy, G, k, last_probe, score,
                   mainVars, evalVars>>

\* lines 85-86 and 98-122: compose the subgraphs and score the graph
Score ==
    /\ pc = "score"
    /\ G' = compose(G_white, G)
    /\ score' \in ScoreGraph(G')
    /\ pc' = "done"
    /\ UNCHANGED <<board, color_turn, board_copy, G_white, k, last_probe,
                   mainVars, evalVars>>

NextGraph ==
    \/ CallInteractions
    \/ DefenseStep
    \/ AttackStep
    \/ ReturnInteractions
    \/ Score

SpecGraph == InitGraph /\ [][NextGraph]_vars

(***************************************************************************)
(* extract_eval(comment) on its own.                                       *)
(***************************************************************************)
InitEval ==
    /\ comment \in Texts
    /\ eval_score = EvalNone
    /\ pc = "extract"
    /\ board = Position(EmptyPieces, WHITE)
    /\ GraphIdle
    /\ game = NoGame
    /\ MainIdle

ExtractEval ==
    /\ pc = "extract"
    /\ eval_score' = extract_eval(comment)
    /\ pc' = "extracted"
    /\ UNCHANGED <<board, comment, graphVars, mainVars>>

NextEval == ExtractEval

SpecEval == InitEval /\ [][NextEval]_vars

(***************************************************************************)
(* The program: fragility_and_eval_by_ply, then the reporter loop.         *)
(***************************************************************************)
Init ==
    /\ game \in {NoGame} \cup {GameOf(b) : b \in StartPositions}
    /\ pc = "main"
    /\ board = NoGame.board
    /\ GraphIdle
    /\ MainIdle
    /\ EvalIdle

\* lines 152-154: no game, ValueError leaves the program
RaiseNoGame ==
    /\ pc = "main"
    /\ GameMissing(game)
    /\ pc' = "raised"
    /\ error' = "No valid game was found in the PGN."
    /\ UNCHANGED <<board, game, mainline, results, ply_count, scores, row,
                   cumulative_eval, output, graphVars, evalVars>>

\* lines 156-164: the record of the initial position
StartWalk ==
    /\ pc = "main"
    /\ ~GameMissing(game)
    /\ board' = game.board
    /\ ply_count' = 0
    /\ \E sc \in compute_fragility_score(board') :
          results' = <<Record(0, StartPos, sc.fragility, EvalNone, sc.top_node)>>
    /\ pc' = "walk"
    /\ UNCHANGED <<game, mainline, error, scores, row, cumulative_eval, output,
                   graphVars, evalVars>>

\* lines 167-183: one main-line move; extract_eval raising ends the program
WalkMove ==
    /\ pc = "walk"
    /\ ply_count < MaxMoves
    /\ \E move \in legal_moves(board), text \in GameComments :
          LET eval == extract_eval(text)
          IN  /\ board' = push(board, move)
              /\ ply_count' = NextPly(ply_count)
              /\ mainline' = Append(mainline, [move |-> move, comment |-> text])
              /\ IF eval = ValueError
                 THEN /\ pc' = "raised"
                      /\ error' = "could not convert string to float"
                      /\ results' = results
                 ELSE /\ pc' = "walk"
                      /\ error' = error
                      /\ \E sc \in compute_fragility_score(board') :
                            results' = WithRecord(results, ply_count', move, sc, eval)
    /\ UNCHANGED <<game, scores, row, cumulative_eval, output, graphVars, evalVars>>

\* line 167 with node.is_end(), lines 185 and 190
ReturnResults ==
    /\ pc = "walk"
    /\ scores' = results
    /\ pc' = "header"
    /\ UNCHANGED <<board, game, mainline, results, ply_count, error, row,
                   cumulative_eval, output, graphVars, evalVars>>

\* lines 192-195
PrintHeader ==
    /\ pc = "header"
    /\ cumulative_eval' = Zero
    /\ output' = output \o <<HeaderLine, RuleLine>>
    /\ row' = 1
    /\ pc' = "rows"
    /\ UNCHANGED <<board, game, mainline, results, ply_count, error, scores,
                   graphVars, evalVars>>

\* lines 196-217: one iteration of the reporter loop
ReportRow ==
    /\ pc = "rows"
    /\ row <= Len(scores)
    /\ cumulative_eval' = Accumulate(cumulative_eval, scores[row].eval_score)
    /\ output' = Append(output, Row(scores[row], cumulative_eval'))
    /\ row' = row + 1
    /\ UNCHANGED <<board, pc, game, mainline, results, ply_count, error, scores,
                   graphVars, evalVars>>

FinishReport ==
    /\ pc = "rows"
    /\ row > Len(scores)
    /\ pc' = "finished"
    /\ UNCHANGED <<board, mainVars, graphVars, evalVars>>

Next ==
    \/ RaiseNoGame
    \/ StartWalk
    \/ WalkMove
    \/ ReturnResults
    \/ PrintHeader
    \/ ReportRow
    \/ FinishReport

Spec == Init /\ [][Next]_vars

(***************************************************************************)
(* Properties of the walker and the reporter, under Spec.                  *)
(***************************************************************************)
\* the position reached from b by the first n moves of a main line
RECURSIVE Replay(_, _, _)
Replay(b, line, n) ==
    IF n = 0 THEN b ELSE push(Replay(b, line, n - 1), line[n].move)

WalkerEnded == pc \in {"raised", "header", "rows", "finished"}
WalkerReturned == pc \in {"header", "rows", "finished"}

\* one record per position of the main line read: plies 0..N in order, the
\* sentinel first, then each move with the score of the position it leads
\* to and the evaluation of its own comment
RecordsMatchReplay ==
    /\ Len(results) = Len(mainline) + 1
    /\ \A i \in 1 .. Len(results) :
          /\ results[i].ply = i - 1
          /\ [fragility |-> results[i].fragility, top_node |-> results[i].top_node]
                \in compute_fragility_score(Replay(game.board, mainline, i - 1))
    /\ results[1].move_uci = StartPos
    /\ results[1].eval_score = EvalNone
    /\ \A i \in 2 .. Len(results) :
          /\ results[i].move_uci = uci(mainline[i - 1].move)
          /\ results[i].eval_score = extract_eval(mainline[i - 1].comment)
    /\ results[Len(results)].ply = Len(mainline)

\* what the walker does return is one record per position
ReturnedRecordsMatchReplay == WalkerReturned => RecordsMatchReplay

\* C1: every replayed main line of N moves yields a result of N+1 records,
\* plies 0..N in order, record 0 the 'start-pos' sentinel without evaluation,
\* record i the i-th move with the fragility of the position after i moves
\* and the evaluation of the i-th comment.
C1_OneRecordPerPosition ==
    (game.present /\ WalkerEnded) => (error = "none" /\ RecordsMatchReplay)

\* the sum of the float evaluations of the first n records
RECURSIVE NumericSum(_, _)
NumericSum(recs, n) ==
    IF n = 0 THEN Zero
    ELSE IF recs[n].eval_score.kind = "float"
         THEN RatAdd(NumericSum(recs, n - 1), recs[n].eval_score.value)
         ELSE NumericSum(recs, n - 1)

\* C2: in the reporter loop, after every printed row the running total is
\* the sum of the float evaluations of the records printed so far; a mate
\* marker or an absent evaluation leaves it unchanged, and it is 0.0 while
\* no record printed has a float evaluation.
C2_RunningTotal ==
    pc \in {"rows", "finished"} =>
        /\ cumulative_eval = NumericSum(scores, row - 1)
        /\ (\A i \in 1 .. row - 1 : scores[i].eval_score.kind # "float")
              => cumulative_eval = Zero
        /\ Len(output) = row + 1
        /\ \A i \in 1 .. row - 1 :
              output[i + 2].cumulative = Fixed(NumericSum(scores, i), 100)

C2_Witness ==
    /\ pc = "finished"
    /\ \E i, j \in 1 .. Len(scores) :
          /\ scores[i].eval_score.kind = "float"
          /\ scores[j].eval_score.kind = "mate"
    /\ cumulative_eval # Zero

\* C6: when the game-record source yields no game the walker raises, the
\* error leaves the program, and neither the header nor any row is printed.
C6_NoGameRaisesBeforeOutput ==
    (~game.present /\ pc # "main") =>
        /\ pc = "raised"
        /\ error = "No valid game was found in the PGN."
        /\ results = <<>>
        /\ output = <<>>

C6_Witness == ~game.present /\ pc = "raised" /\ error # "none"

(***************************************************************************)
(* Properties of extract_eval, under SpecEval.                             *)
(***************************************************************************)
AllDigits(str) == \A i \in 1 .. Len(str) : str[i] \in Digits

\* digits with at most one ".", at least one digit, after an optional sign
IsSignedDecimal(x) ==
    LET body == Unsigned(x)
    IN  \/ body # <<>> /\ AllDigits(body)
        \/ \E d \in 1 .. Len(body) :
              /\ body[d] = "."
              /\ Len(body) > 1
              /\ AllDigits(SubSeq(body, 1, d - 1))
              /\ AllDigits(SubSeq(body, d + 1, Len(body)))

\* "#", an optional "-", digits
IsMateMarker(x) ==
    /\ Len(x) >= 2
    /\ x[1] = "#"
    /\ LET rest == IF x[2] = "-" THEN SubSeq(x, 3, Len(x)) ELSE SubSeq(x, 2, Len(x))
       IN  rest # <<>> /\ AllDigits(rest)

\* the index of the first "]" at or after i (Len + 1 if none)
RECURSIVE NextClose(_, _)
NextClose(text, i) ==
    IF i > Len(text) \/ text[i] = "]" THEN i ELSE NextClose(text, i + 1)

\* the content X of the tag "[%eval X]" opened at index i
TagContent(text, i) == SubSeq(text, i + 1, NextClose(text, i + 1) - 1)

IsTagAt(text, i) == text[i] = OPEN /\ NextClose(text, i + 1) <= Len(text)

\* the reference: the leftmost tag holding a signed decimal or a mate marker
\* decides, and a text without one has no evaluation
RECURSIVE ReferenceFrom(_, _)
ReferenceFrom(text, i) ==
    IF i > Len(text) THEN EvalNone
    ELSE IF IsTagAt(text, i) /\ IsSignedDecimal(TagContent(text, i))
         THEN EvalFloat(FloatValue(TagContent(text, i)))
    ELSE IF IsTagAt(text, i) /\ IsMateMarker(TagContent(text, i))
         THEN EvalMate(TagContent(text, i))
    ELSE ReferenceFrom(text, i + 1)

\* C5: extract_eval agrees with the reference on every comment text: the
\* float of a signed decimal tag, the marker text of a mate tag, and None
\* without an error for every other text, a malformed tag content included.
C5_ExtractEvalMatchesReference ==
    pc = "extracted" => eval_score = ReferenceFrom(comment, 1)

(***************************************************************************)
(* Properties of the graph builder and the scorer, under SpecGraph.        *)
(***************************************************************************)
Built == pc = "done"
NoAttackEdge(g) == \A e \in g.edges : e.interaction # "attack"
OneColour(pieces) ==
    \A s, t \in Occupied(pieces) : pieces[s].color = pieces[t].color

\* C3: the score is (0.0, None) whenever the built graph has no attack
\* edge: on the empty board, with a single piece, and with pieces of one
\* colour only, whatever defense edges there are.
C3_NoAttackEdgeScoresZero ==
    Built =>
        /\ NoAttackEdge(G) => score = NoScore
        /\ (Cardinality(Occupied(board.pieces)) <= 1 \/ OneColour(board.pieces))
              => (NoAttackEdge(G) /\ score = NoScore)

C3_Witness ==
    /\ Built
    /\ NoAttackEdge(G)
    /\ G.edges # {}
    /\ Cardinality(Occupied(board.pieces)) > 1
    /\ score = NoScore

\* C4: the fragility score is never negative: it is the sum, over the nodes
\* that are the target of an attack edge, of their normalized betweenness
\* centralities, none of which is negative.
C4_FragilityNonNegative ==
    Built =>
        LET bc == betweenness_centrality(G)
        IN  /\ score.fragility.num >= 0
            /\ score.fragility.den > 0
            /\ \A v \in G.nodes : bc[v].num >= 0
            /\ score.fragility = RatSum(bc, attacked_nodes(G))

C4_Witness == Built /\ RatLess(Zero, score.fragility)

\* the nodes of S in the graph's node enumeration order, ascending square
SquareOrder(S) ==
    LET sq == SortedSeq({n.square : n \in S})
    IN  [i \in 1 .. Len(sq) |-> CHOOSE n \in S : n.square = sq[i]]

\* C7: with some node attacked, top_node is an attacked node of maximum
\* centrality, and among several of them the first in ascending square
\* order.
C7_TopNodeFirstBySquare ==
    (Built /\ attacked_nodes(G) # {}) =>
        LET bc == betweenness_centrality(G)
            order == SquareOrder(attacked_nodes(G))
        IN  /\ score.top_node \in attacked_nodes(G)
            /\ \A v \in attacked_nodes(G) : ~RatLess(bc[score.top_node], bc[v])
            /\ score.top_node = FirstMax(bc, order, 2, order[1])

\* the piece on a, with its own colour to move, has a legal move that
\* captures on b
CanLegallyCapture(b, sq_a, sq_b) ==
    \E m \in {Move(sq_a, sq_b)} \cup
                {PromotionMove(sq_a, sq_b, p) : p \in PromotionTypes} :
        is_legal(board_copy_for(b, b.pieces[sq_a].color), m)

HasAttackEdge(g, sq_a, sq_b) ==
    \E e \in g.edges :
        e.u.square = sq_a /\ e.v.square = sq_b /\ e.interaction = "attack"

\* C8: between two occupied squares of opposite colours there is an attack
\* edge A->B exactly when the piece on A, its colour to move, can legally
\* capture the piece on B, for every piece type and square; a pawn gets no
\* attack edge along its file.
C8_AttackEdgeIffLegalCapture ==
    Built =>
        \A sq_a, sq_b \in Occupied(board.pieces) :
            (sq_a # sq_b /\ board.pieces[sq_a].color # board.pieces[sq_b].color) =>
                /\ HasAttackEdge(G, sq_a, sq_b) <=> CanLegallyCapture(board, sq_a, sq_b)
                /\ (board.pieces[sq_a].piece_type = "P" /\ File(sq_a) = File(sq_b))
                      => ~HasAttackEdge(G, sq_a, sq_b)

\* C9: graph construction leaves the caller's board as it was, and between
\* loop iterations the working copy holds the original placement: a piece
\* lifted for a defense probe is back on its square whether or not the
\* probed move was legal.
C9_ProbesRestoreThePlacement ==
    /\ [](pc \in {"loop", "call_black", "score", "done"}
            => board_copy.pieces = board.pieces)
    /\ [][board' = board]_vars

C9_Witness ==
    /\ pc = "loop"
    /\ last_probe.kind = "defense"
    /\ ~last_probe.legal
    /\ board.pieces[last_probe.b] # None
    /\ board_copy.pieces = board.pieces

HasOutEdge(g, v) == \E e \in g.edges : e.u = v
HasInEdgeFromOther(g, v) == \E e \in g.edges : e.v = v /\ e.u # v

\* v lies strictly inside a shortest path between two other nodes
StrictlyInside(g, v) ==
    \E s, t \in g.nodes \ {v} :
        /\ s # t
        /\ v \in DOMAIN ShortestPaths(g, s).dist
        /\ t \in DOMAIN ShortestPaths(g, s).dist
        /\ t \in DOMAIN ShortestPaths(g, v).dist
        /\ ShortestPaths(g, s).dist[v] + ShortestPaths(g, v).dist[t]
              = ShortestPaths(g, s).dist[t]

\* C10: an attacked node without an outgoing edge, or without an incoming
\* edge from another node, has centrality 0; the score is positive only if
\* an attacked node lies strictly inside a shortest path between two other
\* nodes; a graph whose only edge is an attack edge scores exactly 0.0 and
\* still reports the attacked node as top_node.
C10_OnlyInnerNodesCount ==
    Built =>
        LET bc == betweenness_centrality(G)
        IN  /\ \A v \in attacked_nodes(G) :
                  (~HasOutEdge(G, v) \/ ~HasInEdgeFromOther(G, v)) => bc[v] = Zero
            /\ RatLess(Zero, score.fragility)
                  => \E v \in attacked_nodes(G) : StrictlyInside(G, v)
            /\ \A e \in G.edges :
                  (G.edges = {e} /\ e.interaction = "attack")
                     => (score.fragility = Zero /\ score.top_node = e.v)

C10_Witness ==
    /\ Built
    /\ \E e \in G.edges : G.edges = {e} /\ e.interaction = "attack"
    /\ score.fragility = Zero
    /\ score.top_node # NoNode
=============================================================================
